---- MODULE Spec2Model ----
(***************************************************************************)
(* A model of the netrohomeapi client (src/netrohomeapi/netrohomeapi.py)   *)
(* and of its pydantic record models (src/netrohomeapi/models.py).         *)
(*                                                                         *)
(* Three specifications share the definitions:                             *)
(*   Spec      the client: it is constructed, calls are issued, suspended  *)
(*             at the two awaits of _get_async/_post_async and completed,  *)
(*             and the caller lets go of the client;                       *)
(*   SpecConc  the same actions run by NumTasks concurrent callers;        *)
(*   SpecCodec the time codec and the Schedule record as pure functions    *)
(*             applied to wire strings and payloads.                       *)
(*                                                                         *)
(* Library behaviour the code relies on (datetime, aiohttp, pydantic) is   *)
(* modelled at the call site that uses it.  The repository does not pin a  *)
(* pydantic major version, and the two majors differ on what the models    *)
(* mean, so the version is an environment choice made in Init.             *)
(***************************************************************************)
EXTENDS Integers, Sequences, FiniteSets, TLC

VARIABLES
    self,       \* the NetroHomeAPI object: its attributes
    calls,      \* per task: the call in progress (position, request, result)
    alive,      \* whether the caller still holds the client
    pydantic,   \* "v1" | "v2": the installed pydantic major version
    wire,       \* SpecCodec: the date-time string under conversion
    decoded,    \* SpecCodec: result of make_tz_aware(wire)
    encoded,    \* SpecCodec: strftime of the decoded instant
    schedule    \* SpecCodec: result of Schedule.parse_obj(payload)

vars == <<self, calls, alive, pydantic, wire, decoded, encoded, schedule>>

clientVars == <<self, calls, alive>>
codecVars == <<wire, decoded, encoded, schedule>>

-----------------------------------------------------------------------------
(* Values.  Python and JSON values are tagged records, so that values of   *)
(* different types can sit in one dict.                                    *)

None == [t |-> "none"]
IntV(n) == [t |-> "int", n |-> n]
StrV(s) == [t |-> "str", s |-> s]
ListV(l) == [t |-> "list", l |-> l]
ObjV(o) == [t |-> "obj", o |-> o]
DateV(y, m, d) == [t |-> "date", year |-> y, month |-> m, day |-> d]

\* A raised exception and a returned value, as results of a function.
Raise(exc) == [ok |-> FALSE, exc |-> exc]
Return(v) == [ok |-> TRUE, v |-> v]

\* Python truthiness, as used by every `if x:` of the client.
Truthy(v) ==
    CASE v.t = "none" -> FALSE
      [] v.t = "int" -> v.n # 0
      [] v.t = "str" -> Len(v.s) > 0
      [] v.t = "list" -> Len(v.l) > 0
      [] OTHER -> TRUE

\* The empty dict, and {**a, **b}: keys of b override keys of a.
EmptyDict == [k \in {} |-> None]
Merge(a, b) == [k \in DOMAIN a \cup DOMAIN b |-> IF k \in DOMAIN b THEN b[k] ELSE a[k]]

-----------------------------------------------------------------------------
(* datetime: parsing (fromisoformat), construction, formatting, difference *)

Digits == <<"0", "1", "2", "3", "4", "5", "6", "7", "8", "9">>
IsDigit(c) == \E i \in 1..10 : Digits[i] = c
DigitVal(c) == (CHOOSE i \in 1..10 : Digits[i] = c) - 1

\* s[a:b] of Python (0-based, end exclusive, clipped to the string).
Slice(s, a, b) ==
    LET e == IF b > Len(s) THEN Len(s) ELSE b
    IN IF a >= e THEN "" ELSE SubSeq(s, a + 1, e)

AllDigits(s) == \A i \in 1..Len(s) : IsDigit(SubSeq(s, i, i))

RECURSIVE ParseDigits(_)
ParseDigits(s) ==
    IF Len(s) = 0 THEN 0
    ELSE ParseDigits(SubSeq(s, 1, Len(s) - 1)) * 10 + DigitVal(SubSeq(s, Len(s), Len(s)))

\* A fixed-width field of digits: -1 when it is short or holds a non-digit.
FieldOf(f, width) == IF Len(f) = width /\ AllDigits(f) THEN ParseDigits(f) ELSE -1
Field(s, pos, width) == FieldOf(Slice(s, pos, pos + width), width)

IsLeap(y) == (y % 4 = 0) /\ ((y % 100 # 0) \/ (y % 400 = 0))
DaysInMonth(y, m) ==
    IF m = 2 THEN (IF IsLeap(y) THEN 29 ELSE 28)
    ELSE IF m \in {4, 6, 9, 11} THEN 30 ELSE 31

RECURSIVE DaysBeforeMonth(_, _)
DaysBeforeMonth(y, m) ==
    IF m <= 1 THEN 0 ELSE DaysBeforeMonth(y, m - 1) + DaysInMonth(y, m - 1)

\* date.toordinal(): the days before the year, before the month, and the day.
ToOrdinal(dt) ==
    (dt.year - 1) * 365 + ((dt.year - 1) \div 4) - ((dt.year - 1) \div 100)
    + ((dt.year - 1) \div 400) + DaysBeforeMonth(dt.year, dt.month) + dt.day

RECURSIVE Pow10(_)
Pow10(n) == IF n = 0 THEN 1 ELSE 10 * Pow10(n - 1)

\* str.find(c) + 1: the 1-based place of the first c in s, 0 when there is none.
FindPlus1(s, c) ==
    IF \E i \in 1..Len(s) : SubSeq(s, i, i) = c
    THEN CHOOSE i \in 1..Len(s) :
            /\ SubSeq(s, i, i) = c
            /\ \A j \in 1..(i - 1) : SubSeq(s, j, j) # c
    ELSE 0

\* The fraction of a second from 0-based place pos on: up to six digits are
\* read and scaled to microseconds, further digits are dropped.
FractionOf(f, rest, toParse) ==
    IF toParse = 0 \/ ~AllDigits(f) \/ ~AllDigits(rest) THEN -1
    ELSE ParseDigits(f) * Pow10(6 - toParse)
FractionAt(t, pos, toParse) ==
    FractionOf(Slice(t, pos, pos + toParse), Slice(t, pos + toParse, Len(t)), toParse)
ParseFraction(t, pos) == FractionAt(t, pos, IF Len(t) - pos >= 6 THEN 6 ELSE Len(t) - pos)

\* HH[:?MM[:?SS[{.,}fff[fff]]]].  The loop over the three components: each
\* is two digits; a ':' after the hour makes ':' required after the minute;
\* the string may end after any component.  pos is where the loop stopped.
TimeComps(sepw, h, next0, mi, next1, s) ==
    IF h < 0 THEN [ok |-> FALSE]
    ELSE IF next0 = "" THEN [ok |-> TRUE, pos |-> 2, h |-> h, mi |-> 0, s |-> 0]
    ELSE IF mi < 0 THEN [ok |-> FALSE]
    ELSE IF next1 = "" THEN [ok |-> TRUE, pos |-> 4 + sepw, h |-> h, mi |-> mi, s |-> 0]
    ELSE IF sepw = 1 /\ next1 # ":" THEN [ok |-> FALSE]
    ELSE IF s < 0 THEN [ok |-> FALSE]
    ELSE [ok |-> TRUE, pos |-> 6 + 2 * sepw, h |-> h, mi |-> mi, s |-> s]

WithMicros(c, us) ==
    IF us < 0 THEN [ok |-> FALSE]
    ELSE [ok |-> TRUE, h |-> c.h, mi |-> c.mi, s |-> c.s, us |-> us]

\* What follows the components: nothing, or '.' or ',' and a fraction.
TimeTail(t, c) ==
    IF ~c.ok THEN [ok |-> FALSE]
    ELSE IF c.pos >= Len(t) THEN WithMicros(c, 0)
    ELSE IF Slice(t, c.pos, c.pos + 1) \notin {".", ","} THEN [ok |-> FALSE]
    ELSE WithMicros(c, ParseFraction(t, c.pos + 1))

HhMmSs(t, sepw) ==
    TimeTail(t, TimeComps(sepw, Field(t, 0, 2), Slice(t, 2, 3),
                          Field(t, 2 + sepw, 2), Slice(t, 4 + sepw, 5 + sepw),
                          Field(t, 4 + 2 * sepw, 2)))

ParseHhMmSsFf(t) == HhMmSs(t, IF Slice(t, 2, 3) = ":" THEN 1 ELSE 0)

\* tstr.find('-') + 1 or tstr.find('+') + 1 or tstr.find('Z') + 1
FirstOf(minus, plus, zed) == IF minus > 0 THEN minus ELSE IF plus > 0 THEN plus ELSE zed
TzPos(tstr) == FirstOf(FindPlus1(tstr, "-"), FindPlus1(tstr, "+"), FindPlus1(tstr, "Z"))

\* The time and the zone put together: tz is "utc", "none" or "offset".
TimeWithZone(tstr, tzPos, tzLen, tc, zc) ==
    IF Len(tstr) < 2 THEN [ok |-> FALSE]
    ELSE IF ~tc.ok THEN [ok |-> FALSE]
    ELSE IF tzPos = Len(tstr) /\ Slice(tstr, Len(tstr) - 1, Len(tstr)) = "Z"
         THEN tc @@ [tz |-> "utc"]
    ELSE IF tzPos = 0 THEN tc @@ [tz |-> "none"]
    ELSE IF tzLen \in {0, 1, 3} THEN [ok |-> FALSE]
    ELSE IF ~zc.ok THEN [ok |-> FALSE]
    ELSE IF zc.h = 0 /\ zc.mi = 0 /\ zc.s = 0 /\ zc.us = 0 THEN tc @@ [tz |-> "utc"]
    ELSE tc @@ [tz |-> "offset"]

\* The time that a zone follows: the parser reads the character after a
\* component before it looks for the end of the time, so one character
\* between a component and the zone is taken for the end and dropped.
DropStray(t, sepw) ==
    IF Len(t) \in {3, 5 + sepw, 7 + 2 * sepw} THEN Slice(t, 0, Len(t) - 1) ELSE t
BeforeZone(t) == DropStray(t, IF Slice(t, 2, 3) = ":" THEN 1 ELSE 0)

SplitAtZone(tstr, tzPos) ==
    TimeWithZone(tstr, tzPos, Len(tstr) - tzPos,
                 ParseHhMmSsFf(IF tzPos > 0 THEN BeforeZone(Slice(tstr, 0, tzPos - 1))
                               ELSE tstr),
                 ParseHhMmSsFf(Slice(tstr, tzPos, Len(tstr))))

\* The time part with its optional zone.
ParseIsoformatTime(tstr) == SplitAtZone(tstr, TzPos(tstr))

\* YYYY-MM-DD or YYYYMMDD (the ISO week forms are not modelled: no input
\* of the model uses them).
DateComps(dstr, sepw, year, month, day) ==
    IF year < 0 \/ month < 0 THEN [ok |-> FALSE]
    ELSE IF (Slice(dstr, 6 + sepw, 7 + sepw) = "-") # (sepw = 1) THEN [ok |-> FALSE]
    ELSE IF day < 0 \/ Len(dstr) # 8 + 2 * sepw THEN [ok |-> FALSE]
    ELSE [ok |-> TRUE, year |-> year, month |-> month, day |-> day]
DateWithSep(dstr, sepw) ==
    DateComps(dstr, sepw, Field(dstr, 0, 4), Field(dstr, 4 + sepw, 2),
              Field(dstr, 6 + 2 * sepw, 2))
ParseIsoformatDate(dstr) == DateWithSep(dstr, IF Slice(dstr, 4, 5) = "-" THEN 1 ELSE 0)

\* datetime(year, month, day, hour, minute, second, microsecond, tzinfo):
\* the constructor checks every component's range.
datetime(len, dc, tc) ==
    IF len < 7 \/ ~dc.ok \/ ~tc.ok THEN Raise("ValueError")
    ELSE IF \/ dc.year \notin 1..9999
            \/ dc.month \notin 1..12
            \/ dc.day \notin 1..DaysInMonth(dc.year, dc.month)
            \/ tc.h \notin 0..23 \/ tc.mi \notin 0..59 \/ tc.s \notin 0..59
         THEN Raise("ValueError")
    ELSE Return([t |-> "datetime", year |-> dc.year, month |-> dc.month,
                 day |-> dc.day, hour |-> tc.h, minute |-> tc.mi, second |-> tc.s,
                 microsecond |-> tc.us, tz |-> tc.tz])

TimePart(tstr) ==
    IF tstr = ""
    THEN [ok |-> TRUE, h |-> 0, mi |-> 0, s |-> 0, us |-> 0, tz |-> "none"]
    ELSE ParseIsoformatTime(tstr)

\* datetime.fromisoformat: the character after the date is the separator,
\* whatever it is.
SplitAtSeparator(str, sepAt) ==
    datetime(Len(str), ParseIsoformatDate(Slice(str, 0, sepAt)),
             TimePart(Slice(str, sepAt + 1, Len(str))))
fromisoformat(str) == SplitAtSeparator(str, IF Slice(str, 4, 5) = "-" THEN 10 ELSE 8)

\* make_tz_aware(v): v + "+00:00" raises TypeError when v is not a string.
make_tz_aware(v) ==
    IF v.t # "str" THEN Raise("TypeError") ELSE fromisoformat(v.s \o "+00:00")

\* strftime directives: %m %d %H %M %S are two digits, zero padded; %Y is
\* the year in decimal, which the C library does not pad to four digits.
Pad2(n) == IF n < 10 THEN "0" \o ToString(n) ELSE ToString(n)
strftime_date(d) == ToString(d.year) \o "-" \o Pad2(d.month) \o "-" \o Pad2(d.day)
\* The date-time written with a space between date and time.
strftime_datetime_Space(d) ==
    strftime_date(d) \o " " \o Pad2(d.hour) \o ":" \o Pad2(d.minute) \o ":" \o Pad2(d.second)
\* strftime("%Y-%m-%dT%H:%M:%S")
strftime_datetime(d) ==
    strftime_date(d) \o "T" \o Pad2(d.hour) \o ":" \o Pad2(d.minute) \o ":" \o Pad2(d.second)

\* timedelta(days, seconds, microseconds), normalised as Python keeps it:
\* 0 <= seconds < 86400 and 0 <= microseconds < 1000000, days of any sign.
timedelta(days, seconds, micros) ==
    LET us == micros % 1000000
        s1 == seconds + (micros \div 1000000)
        s == s1 % 86400
        d == days + (s1 \div 86400)
    IN [t |-> "timedelta", days |-> d, seconds |-> s, microseconds |-> us]

\* datetime.__sub__: both zone-less or both in the same zone subtract field
\* by field; a naive and an aware operand raise TypeError.
datetime_sub(a, b) ==
    IF (a.tz = "none") # (b.tz = "none") THEN Raise("TypeError")
    ELSE Return(timedelta(ToOrdinal(a) - ToOrdinal(b),
                          (a.hour - b.hour) * 3600 + (a.minute - b.minute) * 60
                          + (a.second - b.second),
                          a.microsecond - b.microsecond))

-----------------------------------------------------------------------------
(* The record models of models.py, as pydantic reads them.                 *)

EnumValues(e) ==
    CASE e = "ResponseStatus" -> {StrV("OK"), StrV("ERROR")}
      [] e = "ErrorCode" -> {IntV(n) : n \in 1..6}
      [] e = "DeviceStatus" -> {StrV(x) : x \in {"STANDBY", "SETUP", "ONLINE", "WATERING",
                                                 "OFFLINE", "SLEEPING", "POWEROFF"}}
      [] e = "ZoneSmart" -> {StrV("SMART"), StrV("ASSISTANT"), StrV("TIMER")}
      [] e = "ScheduleSource" -> {StrV("MANUAL"), StrV("SMART")}
      [] e = "ScheduleStatus" -> {StrV("EXECUTED"), StrV("EXECUTING"), StrV("VALID")}
      [] e = "EventType" -> {IntV(n) : n \in 1..4}

\* A field: its name, its annotation, and whether the annotation is Optional[...].
F(n, ty) == [n |-> n, ty |-> ty, opt |-> FALSE]
Opt(n, ty) == [n |-> n, ty |-> ty, opt |-> TRUE]
\* The annotations int, float, str, bool, datetime, date, time, timedelta.
Ty(k) == [k |-> k]
Enum(e) == [k |-> "enum", e |-> e]
Model(m) == [k |-> "model", m |-> m]
ListOf(m) == [k |-> "list", m |-> m]
TypeVarBoundBaseModel == [k |-> "typevar"]

Meta ==
    <<F("last_active", Ty("datetime")), F("tid", Ty("str")), F("time", Ty("datetime")),
      F("token_limit", Ty("int")), F("token_remaining", Ty("int")), F("token_reset", Ty("datetime")),
      F("version", Ty("str"))>>

BaseResponse == <<F("status", Enum("ResponseStatus")), F("meta", Model("Meta"))>>

\* SuccessResponse(BaseResponse, Generic[dataP]): `data: dataP`.  pydantic 2
\* substitutes the parameter of SuccessResponse[X]; pydantic 1 knows generic
\* models only as GenericModel subclasses, so for a plain BaseModel X is lost
\* and dataP is read as its bound, BaseModel.  Unparametrised, both read the bound.
SuccessResponse(ver, dataP) ==
    BaseResponse \o
    <<F("data", IF ver = "v2" /\ dataP # "" THEN Model(dataP) ELSE TypeVarBoundBaseModel)>>

ErrorData == <<F("code", Enum("ErrorCode")), F("message", Ty("str"))>>
ErrorResponse == BaseResponse \o <<F("errors", ListOf("ErrorData"))>>

Zone == <<F("enabled", Ty("bool")), F("ith", Ty("int")), F("name", Ty("str")), F("smart", Enum("ZoneSmart"))>>

Device ==
    <<F("last_active", Ty("datetime")), F("name", Ty("str")), F("serial", Ty("str")),
      F("status", Enum("DeviceStatus")), F("sw_version", Ty("str")), F("version", Ty("str")),
      F("zone_num", Ty("int")), F("zones", ListOf("Zone")), Opt("batter_level", Ty("float"))>>

InfoData == <<F("device", Model("Device"))>>

Schedule ==
    <<F("end_time", Ty("datetime")), F("id", Ty("int")), F("local_date", Ty("date")),
      F("local_end_time", Ty("time")), F("local_start_time", Ty("time")),
      F("source", Enum("ScheduleSource")), F("start_time", Ty("datetime")),
      F("status", Enum("ScheduleStatus")), F("zone", Ty("int")), Opt("duration", Ty("timedelta"))>>

ScheduleData == <<F("schedules", ListOf("Schedule"))>>

Moisture == <<F("date", Ty("date")), F("id", Ty("int")), F("moisture", Ty("int")), F("zone", Ty("int"))>>
MoistureData == <<F("moistures", ListOf("Moisture"))>>

Event == <<F("event", Enum("EventType")), F("id", Ty("int")), F("message", Ty("str")), F("time", Ty("datetime"))>>
EventData == <<F("events", ListOf("Event"))>>

Sensor ==
    <<F("id", Ty("int")), F("time", Ty("datetime")), F("local_date", Ty("date")), F("local_time", Ty("time")),
      F("moisture", Ty("int")), F("sunlight", Ty("float")), F("celsius", Ty("float")),
      F("fahrenheit", Ty("float")), F("battery_level", Ty("int"))>>
SensorData == <<F("sensor_data", ListOf("Sensor"))>>

InfoEndpointResponse(ver) == SuccessResponse(ver, "InfoData")
SchedulesEndpointResponse(ver) == SuccessResponse(ver, "ScheduleData")
MoisturesEndpointResponse(ver) == SuccessResponse(ver, "MoistureData")
EventsEndpointResponse(ver) == SuccessResponse(ver, "EventData")
SensorsEndpointResponse(ver) == SuccessResponse(ver, "SensorData")

Fields(ver, m) ==
    CASE m = "Meta" -> Meta
      [] m = "SuccessResponse" -> SuccessResponse(ver, "")
      [] m = "ErrorData" -> ErrorData
      [] m = "ErrorResponse" -> ErrorResponse
      [] m = "Zone" -> Zone
      [] m = "Device" -> Device
      [] m = "InfoData" -> InfoData
      [] m = "Schedule" -> Schedule
      [] m = "ScheduleData" -> ScheduleData
      [] m = "Moisture" -> Moisture
      [] m = "MoistureData" -> MoistureData
      [] m = "Event" -> Event
      [] m = "EventData" -> EventData
      [] m = "Sensor" -> Sensor
      [] m = "SensorData" -> SensorData
      [] m = "InfoEndpointResponse" -> InfoEndpointResponse(ver)
      [] m = "SchedulesEndpointResponse" -> SchedulesEndpointResponse(ver)
      [] m = "MoisturesEndpointResponse" -> MoisturesEndpointResponse(ver)
      [] m = "EventsEndpointResponse" -> EventsEndpointResponse(ver)
      [] m = "SensorsEndpointResponse" -> SensorsEndpointResponse(ver)

\* The fields given validator(..., pre=True)(make_tz_aware).
TzAwareFields(m) ==
    CASE m = "Meta" -> {"last_active", "time", "token_reset"}
      [] m = "Device" -> {"last_active"}
      [] m = "Schedule" -> {"start_time", "end_time"}
      [] m = "Event" -> {"time"}
      [] m = "Sensor" -> {"time"}
      [] OTHER -> {}

-----------------------------------------------------------------------------
(* pydantic's validation of a decoded JSON object against a model.         *)

ModelV(m, f) == [t |-> "model", m |-> m, f |-> f]
ValidationError == Raise("ValidationError")

\* An exception raised inside a validator function.  Both versions turn
\* ValueError into a validation error; pydantic 1 does so for TypeError too,
\* pydantic 2 lets TypeError through; neither catches KeyError.
FromValidator(ver, r) ==
    IF r.ok THEN r
    ELSE IF r.exc = "ValueError" THEN ValidationError
    ELSE IF r.exc = "TypeError" /\ ver = "v1" THEN ValidationError
    ELSE r

\* The same keeping a duration the payload gave.
calc_duration_KeepGiven(v, values) ==
    IF v # None THEN Return(v)
    ELSE IF "end_time" \notin DOMAIN values \/ "start_time" \notin DOMAIN values
    THEN Raise("KeyError")
    ELSE datetime_sub(values["end_time"], values["start_time"])

\* Schedule.calc_duration(cls, v, values): v is ignored; values holds the
\* fields validated so far, and lacks those that failed.
calc_duration(v, values) ==
    IF "end_time" \notin DOMAIN values \/ "start_time" \notin DOMAIN values
    THEN Raise("KeyError")
    ELSE datetime_sub(values["end_time"], values["start_time"])

\* The validators that run after a field's own type validation.
PostValidators(ver, m, name, v, values) ==
    IF m = "Schedule" /\ name = "duration"
    THEN FromValidator(ver, calc_duration(v, values))
    ELSE Return(v)

\* validator(..., always=True): runs also when the field is absent.
ValidateAlways(m, name) == m = "Schedule" /\ name = "duration"

\* pydantic's own parsing of a date and of a time of day from a string.
DateOf(d) ==
    IF ~d.ok THEN ValidationError
    ELSE IF d.year \notin 1..9999 \/ d.month \notin 1..12
            \/ d.day \notin 1..DaysInMonth(d.year, d.month) THEN ValidationError
    ELSE Return(DateV(d.year, d.month, d.day))
ParseDate(v) == IF v.t # "str" THEN ValidationError ELSE DateOf(ParseIsoformatDate(v.s))

TimeOf(c) ==
    IF ~c.ok THEN ValidationError
    ELSE IF c.h \notin 0..23 \/ c.mi \notin 0..59 \/ c.s \notin 0..59 THEN ValidationError
    ELSE Return([t |-> "time", hour |-> c.h, minute |-> c.mi, second |-> c.s,
                 microsecond |-> c.us])
ParseTime(v) == IF v.t # "str" THEN ValidationError ELSE TimeOf(ParseHhMmSsFf(v.s))

RECURSIVE ValidateType(_, _, _)
RECURSIVE ValidateFields(_, _, _, _, _, _, _)
RECURSIVE ValidateItems(_, _, _, _, _, _)

\* A field's type validation done, its post-validators run.
AfterType(ver, m, fd, values, inner) ==
    IF ~inner.ok THEN inner ELSE PostValidators(ver, m, fd.n, inner.v, values)

\* A field's pre-validators done: None is accepted for an Optional field
\* and refused for any other; every other value is validated as the type.
AfterPre(ver, m, fd, values, pre) ==
    IF ~pre.ok THEN pre
    ELSE AfterType(ver, m, fd, values,
                   IF pre.v.t = "none"
                   THEN (IF fd.opt THEN Return(None) ELSE ValidationError)
                   ELSE ValidateType(ver, fd.ty, pre.v))

\* One field of model m, given the object and the values validated before
\* it.  An absent field is an error when required; when not, it is None,
\* which goes through the field's validation only under always=True.
ValidateField(ver, m, fd, obj, values) ==
    IF fd.n \notin DOMAIN obj /\ (ver = "v2" \/ ~fd.opt) THEN ValidationError
    ELSE IF fd.n \notin DOMAIN obj /\ ~ValidateAlways(m, fd.n) THEN Return(None)
    ELSE AfterPre(ver, m, fd, values,
                  IF fd.n \notin DOMAIN obj THEN Return(None)
                  ELSE IF fd.n \in TzAwareFields(m)
                       THEN FromValidator(ver, make_tz_aware(obj[fd.n]))
                  ELSE Return(obj[fd.n]))

\* The outcome r of field i: a validation error is collected, any other
\* exception leaves at once.
NextField(ver, m, fields, obj, i, values, failed, r) ==
    IF ~r.ok /\ r.exc # "ValidationError" THEN r
    ELSE ValidateFields(ver, m, fields, obj, i + 1,
                        IF r.ok THEN (fields[i].n :> r.v) @@ values ELSE values,
                        failed \/ ~r.ok)

\* The fields in declaration order; the collected validation errors are
\* raised at the end.  Keys of the object that are no field of the model
\* are ignored.
ValidateFields(ver, m, fields, obj, i, values, failed) ==
    IF i > Len(fields)
    THEN IF failed THEN ValidationError ELSE Return(ModelV(m, values))
    ELSE NextField(ver, m, fields, obj, i, values, failed,
                   ValidateField(ver, m, fields[i], obj, values))

ValidateModel(ver, m, obj) == ValidateFields(ver, m, Fields(ver, m), obj, 1, EmptyDict, FALSE)

NextItem(ver, m, items, i, out, failed, r) ==
    IF ~r.ok /\ r.exc # "ValidationError" THEN r
    ELSE ValidateItems(ver, m, items, i + 1,
                       IF r.ok THEN Append(out, r.v) ELSE out, failed \/ ~r.ok)

ValidateItems(ver, m, items, i, out, failed) ==
    IF i > Len(items)
    THEN IF failed THEN ValidationError ELSE Return(ListV(out))
    ELSE NextItem(ver, m, items, i, out, failed, ValidateType(ver, Model(m), items[i]))

\* A value against an annotation.  JSON numbers are integers in this model;
\* the inputs hold no value that pydantic would coerce across types.
ValidateType(ver, ty, v) ==
    CASE ty.k = "int" -> IF v.t = "int" THEN Return(v) ELSE ValidationError
      [] ty.k = "float" -> IF v.t = "int" THEN Return(v) ELSE ValidationError
      [] ty.k = "str" -> IF v.t = "str" THEN Return(v) ELSE ValidationError
      [] ty.k = "bool" -> IF v.t = "bool" THEN Return(v) ELSE ValidationError
      [] ty.k = "datetime" -> IF v.t = "datetime" THEN Return(v) ELSE ValidationError
      [] ty.k = "date" -> ParseDate(v)
      [] ty.k = "time" -> ParseTime(v)
      [] ty.k = "timedelta" ->
            IF v.t = "int" THEN Return(timedelta(0, v.n, 0)) ELSE ValidationError
      [] ty.k = "enum" -> IF v \in EnumValues(ty.e) THEN Return(v) ELSE ValidationError
      [] ty.k = "model" ->
            IF v.t = "obj" THEN ValidateModel(ver, ty.m, v.o) ELSE ValidationError
      [] ty.k = "list" ->
            IF v.t = "list" THEN ValidateItems(ver, ty.m, v.l, 1, <<>>, FALSE)
            ELSE ValidationError
      [] ty.k = "typevar" ->
            IF v.t = "obj" THEN Return(ModelV("BaseModel", EmptyDict)) ELSE ValidationError

\* Model.parse_obj(obj)
parse_obj(ver, m, obj) == ValidateType(ver, Model(m), obj)

-----------------------------------------------------------------------------
(* The client, netrohomeapi.py.  An operation takes the client object and  *)
(* its arguments and yields the client object afterwards together with the *)
(* request handed to the session (or the exception raised before any).     *)

BASE_URL == "http://api.netrohome.com/npa/v1"

_get_url(endpoint) == BASE_URL \o "/" \o endpoint \o ".json"

Sent(slf, request) == [self |-> slf, ok |-> TRUE, request |-> request]
NotSent(slf, exc) == [self |-> slf, ok |-> FALSE, exc |-> exc]

\* The same keeping the parameters on the client: self.params.update(params).
_get_async_SharedParams(slf, endpoint, params) ==
    IF slf.session = None THEN NotSent(slf, "Exception")
    ELSE Sent([api_key |-> slf.api_key, session |-> slf.session,
               params |-> Merge(IF "params" \in DOMAIN slf THEN slf.params
                                ELSE [key |-> StrV(slf.api_key)], params)],
              [method |-> "GET",
               url |-> _get_url(endpoint),
               headers |-> [Content_Type |-> "application/json"],
               params |-> Merge(IF "params" \in DOMAIN slf THEN slf.params
                                ELSE [key |-> StrV(slf.api_key)], params)])

\* _get_async up to its first await: session.get(url, headers, params).
_get_async(slf, endpoint, params) ==
    IF slf.session = None THEN NotSent(slf, "Exception")
    ELSE Sent(slf, [method |-> "GET",
                    url |-> _get_url(endpoint),
                    headers |-> [Content_Type |-> "application/json"],
                    params |-> Merge([key |-> StrV(slf.api_key)], params)])

\* The same with `json=data`: the base data left out.
_post_async_NoKey(slf, endpoint, data) ==
    IF slf.session = None THEN NotSent(slf, "Exception")
    ELSE Sent(slf, [method |-> "POST",
                    url |-> _get_url(endpoint),
                    headers |-> [Accept |-> "application/json",
                                 Content_Type |-> "application/json"],
                    json |-> data])

\* _post_async up to its first await: session.post(url, headers, json).
_post_async(slf, endpoint, data) ==
    IF slf.session = None THEN NotSent(slf, "Exception")
    ELSE Sent(slf, [method |-> "POST",
                    url |-> _get_url(endpoint),
                    headers |-> [Accept |-> "application/json",
                                 Content_Type |-> "application/json"],
                    json |-> Merge([key |-> StrV(slf.api_key)], data)])

\* The same raising for every status outside 200..299.
raise_for_status_Non2xx(status) ==
    IF status \notin 200..299 THEN Raise("ClientResponseError") ELSE Return(None)

\* aiohttp's response.raise_for_status(): raises when the status is 400 or
\* more (ClientResponse.ok is `400 > status`).
raise_for_status(status) ==
    IF status >= 400 THEN Raise("ClientResponseError") ELSE Return(None)

\* NetroException.__init__(result): reads result.errors[0].
NetroException(result) ==
    LET errors == result.f["errors"].l
    IN IF Len(errors) = 0 THEN Raise("IndexError")
       ELSE [ok |-> FALSE, exc |-> "NetroException",
             message |-> errors[1].f["message"], code |-> errors[1].f["code"]]

\* response.json(): the decoded body, or ContentTypeError for a body that is
\* not JSON.  The bodies of this model are JSON objects or not JSON at all.
NotJson == [t |-> "notjson"]
response_json(body) == IF body.t = "notjson" THEN Raise("ContentTypeError") ELSE Return(body)

\* The rest of _get_async and _post_async, after response.json() returned:
\* the probe for "errors", then the raw data.
Probed(parsed) == IF parsed.ok THEN NetroException(parsed.v) ELSE parsed
ProbeErrors(ver, data) ==
    IF "errors" \in DOMAIN data.o
    THEN Probed(parse_obj(ver, "ErrorResponse", data))
    ELSE Return(data)

AfterJson(ver, data) == IF data.ok THEN ProbeErrors(ver, data.v) ELSE data
_get_async_body(ver, body) == AfterJson(ver, response_json(body))
_post_async_body(ver, body) == AfterJson(ver, response_json(body))

\* str(zones) for a list of ints: "[1, 2]".
RECURSIVE JoinInts(_)
JoinInts(l) ==
    IF Len(l) = 0 THEN ""
    ELSE IF Len(l) = 1 THEN ToString(l[1])
    ELSE ToString(l[1]) \o ", " \o JoinInts(SubSeq(l, 2, Len(l)))
str(zones) == StrV("[" \o JoinInts(zones.l) \o "]")

\* The same under `if cond is not None:`.
UpdateIf_IsNotNone(params, cond, name, value) ==
    IF cond # None THEN Merge(params, (name :> value)) ELSE params

\* params.update({name: value}) under `if cond:`.
UpdateIf(params, cond, name, value) ==
    IF Truthy(cond) THEN Merge(params, (name :> value)) ELSE params

\* x.strftime(fmt) if x else None
DateOrNone(d) == IF Truthy(d) THEN StrV(strftime_date(d)) ELSE None
DateTimeOrNone(d) == IF Truthy(d) THEN StrV(strftime_datetime(d)) ELSE None

get_info_raw(slf) == _get_async(slf, "info", EmptyDict)
get_info(slf) == get_info_raw(slf)

set_device_status_raw(slf, status) == _post_async(slf, "set_status", [status |-> status])
set_device_status(slf, status) == set_device_status_raw(slf, status)

get_schedules_raw(slf, start_date, end_date, zones) ==
    LET p1 == UpdateIf(EmptyDict, zones, "zones", str(zones))
        p2 == UpdateIf(p1, start_date, "start_date", start_date)
        p3 == UpdateIf(p2, end_date, "end_date", end_date)
    IN _get_async(slf, "schedules", p3)
get_schedules(slf, start_date, end_date, zones) ==
    get_schedules_raw(slf, DateOrNone(start_date), DateOrNone(end_date), zones)

\* The same posting to 'schedules'.
set_schedule_raw_Schedules(slf, zones, duration, delay, start_time) ==
    LET p0 == [duration |-> duration]
        p1 == UpdateIf(p0, zones, "zones", str(zones))
        p2 == UpdateIf(p1, delay, "delay", delay)
        p3 == UpdateIf(p2, start_time, "start_time", start_time)
    IN _post_async(slf, "schedules", p3)

set_schedule_raw(slf, zones, duration, delay, start_time) ==
    LET p0 == [duration |-> duration]
        p1 == UpdateIf(p0, zones, "zones", str(zones))
        p2 == UpdateIf(p1, delay, "delay", delay)
        p3 == UpdateIf(p2, start_time, "start_time", start_time)
    IN _post_async(slf, "water", p3)
set_schedule(slf, zones, duration, delay, start_time) ==
    set_schedule_raw(slf, zones, duration,
                     IF Truthy(delay) THEN delay ELSE None, DateTimeOrNone(start_time))

get_moistures_raw(slf, start_date, end_date, zones) ==
    LET p1 == UpdateIf(EmptyDict, zones, "zones", str(zones))
        p2 == UpdateIf(p1, start_date, "start_date", start_date)
        p3 == UpdateIf(p2, end_date, "end_date", end_date)
    IN _get_async(slf, "moistures", p3)
get_moistures(slf, start_date, end_date, zones) ==
    get_moistures_raw(slf, DateOrNone(start_date), DateOrNone(end_date), zones)

set_moisture_raw(slf, moisture, zones) ==
    LET p0 == [moisture |-> moisture]
        p1 == UpdateIf(p0, zones, "zones", str(zones))
    IN _post_async(slf, "water", p1)
set_moisture(slf, moisture, zones) == set_moisture_raw(slf, moisture, zones)

get_events_raw(slf, start_date, end_date, event) ==
    LET p1 == UpdateIf(EmptyDict, event, "event", event)
        p2 == UpdateIf(p1, start_date, "start_date", start_date)
        p3 == UpdateIf(p2, end_date, "end_date", end_date)
    IN _get_async(slf, "events", p3)
\* event.value of an EventType member is the member's integer.
get_events(slf, start_date, end_date, event) ==
    get_events_raw(slf, DateOrNone(start_date), DateOrNone(end_date),
                   IF Truthy(event) THEN event ELSE None)

water_raw(slf, duration, zones, delay, start_time) ==
    LET p0 == [duration |-> duration]
        p1 == UpdateIf(p0, zones, "zones", str(zones))
        p2 == UpdateIf(p1, delay, "delay", delay)
        p3 == UpdateIf(p2, start_time, "start_time", start_time)
    IN _post_async(slf, "water", p3)
water(slf, duration, zones, delay, start_time) ==
    water_raw(slf, duration, zones,
              IF Truthy(delay) THEN delay ELSE None, DateTimeOrNone(start_time))

water_as_schedule_raw(slf, zones, duration) ==
    set_schedule_raw(slf, zones, duration, None, None)
water_as_schedule(slf, zones, duration) == set_schedule(slf, zones, duration, None, None)

stop_water_raw(slf) == _post_async(slf, "stop_water", EmptyDict)
stop_water(slf) == stop_water_raw(slf)

no_water_raw(slf, days) == _post_async(slf, "no_water", [days |-> days])
no_water(slf, days) == no_water_raw(slf, days)

WeatherFields ==
    <<"condition", "rain", "rain_prob", "temp", "t_min", "t_max", "t_dew",
      "wind_speed", "humidity", "pressure">>

\* The ten `if x: params.update({"x": x})` of report_weather_raw, in order;
\* w maps each optional parameter to the value passed.
RECURSIVE UpdateWeather(_, _, _)
UpdateWeather(params, w, i) ==
    IF i > Len(WeatherFields) THEN params
    ELSE UpdateWeather(UpdateIf(params, w[WeatherFields[i]], WeatherFields[i],
                                w[WeatherFields[i]]), w, i + 1)

report_weather_raw(slf, date, w) ==
    _post_async(slf, "report_weather", UpdateWeather([date |-> date], w, 1))
report_weather(slf, date, w) == report_weather_raw(slf, StrV(strftime_date(date)), w)

get_sensor_data_raw(slf, from_date, to_date) ==
    LET p1 == UpdateIf(EmptyDict, from_date, "from_date", from_date)
        p2 == UpdateIf(p1, to_date, "to_date", to_date)
    IN _get_async(slf, "sensor_data", p2)
get_sensor_data(slf, from_date, to_date) ==
    get_sensor_data_raw(slf, DateOrNone(from_date), DateOrNone(to_date))

-----------------------------------------------------------------------------
(* Bounds and inputs.                                                      *)

MaxZone == 2        \* zones are numbered 1..MaxZone
MaxErrors == 2      \* longest `errors` array a response carries
NumTasks == 2       \* concurrent callers of SpecConc

BoolV(b) == [t |-> "bool", b |-> b]
DateTimeV(y, mo, d, h, mi, sec) ==
    [t |-> "datetime", year |-> y, month |-> mo, day |-> d, hour |-> h,
     minute |-> mi, second |-> sec, microsecond |-> 0, tz |-> "none"]

Drop(obj, k) == ObjV([x \in DOMAIN obj.o \ {k} |-> obj.o[x]])
Put(obj, k, v) == ObjV((k :> v) @@ obj.o)

ApiKeys == {"key-A", "key-B"}

\* An open aiohttp session, tagged with who made it.
Session(owner) == [t |-> "session", owner |-> owner, closed |-> FALSE]

\* The `session` argument of the constructor: left out, or a session the
\* caller made.
SessionArgs == {None, Session("caller")}

\* Lists of zone numbers, in increasing order.
RECURSIVE ZoneListsFrom(_)
ZoneListsFrom(z) ==
    IF z > MaxZone THEN {<<>>}
    ELSE ZoneListsFrom(z + 1) \cup {<<z>> \o l : l \in ZoneListsFrom(z + 1)}
OptZones == {None} \cup {ListV(l) : l \in ZoneListsFrom(1)}

Dates == {DateV(2023, 12, 31), DateV(2024, 1, 5)}
OptDates == {None} \cup Dates
OptDateTimes == {None, DateTimeV(2024, 1, 5, 6, 30, 0)}
Durations == {IntV(1), IntV(5)}
OptDelays == {None, IntV(0), IntV(10)}
OptEvents == {None, IntV(1), IntV(3)}
OptDays == {None, IntV(0), IntV(2)}
DeviceSetStatus == {IntV(0), IntV(1)}
Moistures == {IntV(0), IntV(40)}

\* report_weather: every optional parameter None but one, which is None, 0
\* or 3; or every optional parameter 3.
WeatherNames == {WeatherFields[i] : i \in 1..Len(WeatherFields)}
WeatherArgs ==
    {[n \in WeatherNames |-> IF n = f THEN v ELSE None] :
        f \in WeatherNames, v \in {None, IntV(0), IntV(3)}}
    \cup {[n \in WeatherNames |-> IntV(3)]}

Ops ==
    {"get_info", "set_device_status", "get_schedules", "set_schedule", "get_moistures",
     "set_moisture", "get_events", "water", "water_as_schedule", "stop_water",
     "no_water", "report_weather", "get_sensor_data"}

\* The argument records of each typed operation.
Args(op) ==
    CASE op \in {"get_info", "stop_water"} -> {[none |-> None]}
      [] op = "set_device_status" -> {[status |-> x] : x \in DeviceSetStatus}
      [] op \in {"get_schedules", "get_moistures"} ->
            [start_date : OptDates, end_date : OptDates, zones : OptZones]
      [] op \in {"set_schedule", "water"} ->
            [zones : OptZones, duration : Durations, delay : OptDelays,
             start_time : OptDateTimes]
      [] op = "set_moisture" -> [moisture : Moistures, zones : OptZones]
      [] op = "get_events" -> [start_date : OptDates, end_date : OptDates, event : OptEvents]
      [] op = "water_as_schedule" -> [zones : OptZones, duration : Durations]
      [] op = "no_water" -> [days : OptDays]
      [] op = "report_weather" -> [date : Dates, w : WeatherArgs]
      [] op = "get_sensor_data" -> [from_date : OptDates, to_date : OptDates]

\* The call of a typed operation, up to the request it sends.
Invoke(slf, op, a) ==
    CASE op = "get_info" -> get_info(slf)
      [] op = "set_device_status" -> set_device_status(slf, a.status)
      [] op = "get_schedules" -> get_schedules(slf, a.start_date, a.end_date, a.zones)
      [] op = "set_schedule" -> set_schedule(slf, a.zones, a.duration, a.delay, a.start_time)
      [] op = "get_moistures" -> get_moistures(slf, a.start_date, a.end_date, a.zones)
      [] op = "set_moisture" -> set_moisture(slf, a.moisture, a.zones)
      [] op = "get_events" -> get_events(slf, a.start_date, a.end_date, a.event)
      [] op = "water" -> water(slf, a.duration, a.zones, a.delay, a.start_time)
      [] op = "water_as_schedule" -> water_as_schedule(slf, a.zones, a.duration)
      [] op = "stop_water" -> stop_water(slf)
      [] op = "no_water" -> no_water(slf, a.days)
      [] op = "report_weather" -> report_weather(slf, a.date, a.w)
      [] op = "get_sensor_data" -> get_sensor_data(slf, a.from_date, a.to_date)

\* The HTTP method each operation's raw form uses.
IsGet(op) == op \in {"get_info", "get_schedules", "get_moistures", "get_events",
                     "get_sensor_data"}

\* The model each typed operation hands the raw data to (X.parse_obj(res)).
ResponseModel(op) ==
    CASE op = "get_info" -> "InfoEndpointResponse"
      [] op \in {"get_schedules", "set_schedule", "water", "water_as_schedule"} ->
            "SchedulesEndpointResponse"
      [] op \in {"get_moistures", "set_moisture"} -> "MoisturesEndpointResponse"
      [] op = "get_events" -> "EventsEndpointResponse"
      [] op = "get_sensor_data" -> "SensorsEndpointResponse"
      [] op \in {"set_device_status", "stop_water", "no_water", "report_weather"} ->
            "SuccessResponse"

\* The typed operation after the raw form returned or raised.
Typed(ver, op, raw) == IF raw.ok THEN parse_obj(ver, ResponseModel(op), raw.v) ELSE raw
Complete(ver, op, body) ==
    Typed(ver, op, IF IsGet(op) THEN _get_async_body(ver, body)
                   ELSE _post_async_body(ver, body))

-----------------------------------------------------------------------------
(* What the service answers.  The well-formed payloads follow the *Raw     *)
(* TypedDicts of models.py; the others lack a key, hold a null, or carry a *)
(* key the TypedDict does not name.                                        *)

MetaRaw ==
    ObjV([last_active |-> StrV("2024-01-05T08:00:00"), tid |-> StrV("1704441600_ab"),
          time |-> StrV("2024-01-05T08:00:01"), token_limit |-> IntV(2000),
          token_remaining |-> IntV(1999), token_reset |-> StrV("2024-01-06T00:00:00"),
          version |-> StrV("1.0")])

ZoneRaw ==
    ObjV([enabled |-> BoolV(TRUE), ith |-> IntV(1), name |-> StrV("Lawn"),
          smart |-> StrV("SMART")])

DeviceRaw ==
    ObjV([last_active |-> StrV("2024-01-05T07:59:00"), name |-> StrV("Garden"),
          serial |-> StrV("abc123"), status |-> StrV("ONLINE"),
          sw_version |-> StrV("1.2"), version |-> StrV("1.1"), zone_num |-> IntV(1),
          zones |-> ListV(<<ZoneRaw>>)])

ScheduleRaw ==
    ObjV([end_time |-> StrV("2024-01-06T00:10:00"), id |-> IntV(7),
          local_date |-> StrV("2024-01-05"), local_end_time |-> StrV("17:10:00"),
          local_start_time |-> StrV("16:50:00"), source |-> StrV("MANUAL"),
          start_time |-> StrV("2024-01-05T23:50:00"), status |-> StrV("VALID"),
          zone |-> IntV(1)])

MoistureRaw ==
    ObjV([date |-> StrV("2024-01-05"), id |-> IntV(3), moisture |-> IntV(40),
          zone |-> IntV(1)])

EventRaw ==
    ObjV([event |-> IntV(3), id |-> IntV(9), message |-> StrV("Schedule started"),
          time |-> StrV("2024-01-05T06:30:00")])

SensorRaw ==
    ObjV([id |-> IntV(5), time |-> StrV("2024-01-05T06:00:00"),
          local_date |-> StrV("2024-01-04"), local_time |-> StrV("23:00:00"),
          moisture |-> IntV(40), sunlight |-> IntV(12), celsius |-> IntV(20),
          fahrenheit |-> IntV(68), battery_level |-> IntV(90)])

\* A record as sent, without one of its keys, with a null for one of its
\* values, or with one more key.
RecordVariants(rec) ==
    {rec, Put(rec, "unknown_field", IntV(1))}
    \cup {Drop(rec, k) : k \in DOMAIN rec.o}
    \cup {Put(rec, k, None) : k \in DOMAIN rec.o}

DeviceVariants ==
    RecordVariants(DeviceRaw)
    \cup {Put(DeviceRaw, "battery_level", IntV(80)), Put(DeviceRaw, "batter_level", IntV(80)),
          Put(DeviceRaw, "batter_level", None),
          Put(Put(DeviceRaw, "batter_level", None), "unknown_field", IntV(1)),
          Put(DeviceRaw, "zones", ListV(<<Drop(ZoneRaw, "ith")>>))}
    \cup {Drop(Put(DeviceRaw, "batter_level", None), k) : k \in DOMAIN DeviceRaw.o}

\* Schedules as sent, and with a `duration` key: null, a number, or junk.
ScheduleVariants ==
    RecordVariants(ScheduleRaw)
    \cup {Put(r, "duration", d) :
            r \in {ScheduleRaw, Put(ScheduleRaw, "unknown_field", IntV(1))}
                  \cup {Drop(ScheduleRaw, k) : k \in DOMAIN ScheduleRaw.o},
            d \in {None, IntV(5)}}
    \cup {Put(ScheduleRaw, "duration", StrV("junk"))}

DataVariants(m) ==
    CASE m = "InfoEndpointResponse" -> {ObjV([device |-> d]) : d \in DeviceVariants}
      [] m = "SchedulesEndpointResponse" ->
            {ObjV([schedules |-> ListV(<<r>>)]) : r \in ScheduleVariants}
            \cup {ObjV([schedules |-> ListV(<<>>)]),
                  ObjV([schedules |-> ListV(<<ScheduleRaw, ScheduleRaw>>)])}
      [] m = "MoisturesEndpointResponse" ->
            {ObjV([moistures |-> ListV(<<r>>)]) : r \in RecordVariants(MoistureRaw)}
      [] m = "EventsEndpointResponse" ->
            {ObjV([events |-> ListV(<<r>>)]) : r \in RecordVariants(EventRaw)}
      [] m = "SensorsEndpointResponse" ->
            {ObjV([sensor_data |-> ListV(<<r>>)]) : r \in RecordVariants(SensorRaw)}
      [] m = "SuccessResponse" -> {ObjV(EmptyDict), ObjV([unknown_field |-> IntV(1)])}

\* The payload that follows the endpoint's *Raw TypedDict.
WellFormedData(m) ==
    CASE m = "InfoEndpointResponse" -> ObjV([device |-> DeviceRaw])
      [] m = "SchedulesEndpointResponse" -> ObjV([schedules |-> ListV(<<ScheduleRaw>>)])
      [] m = "MoisturesEndpointResponse" -> ObjV([moistures |-> ListV(<<MoistureRaw>>)])
      [] m = "EventsEndpointResponse" -> ObjV([events |-> ListV(<<EventRaw>>)])
      [] m = "SensorsEndpointResponse" -> ObjV([sensor_data |-> ListV(<<SensorRaw>>)])
      [] m = "SuccessResponse" -> ObjV(EmptyDict)

Envelope(data) == ObjV([status |-> StrV("OK"), meta |-> MetaRaw, data |-> data])

SuccessBodies(m) ==
    LET good == Envelope(WellFormedData(m))
    IN {Envelope(d) : d \in DataVariants(m) \cup {ObjV(EmptyDict)}}
       \cup {Drop(good, k) : k \in DOMAIN good.o}
       \cup {Put(good, "unknown_field", IntV(1)), Put(good, "data", None),
             Put(good, "status", StrV("MAYBE"))}
       \cup {Put(good, "meta", mv) : mv \in RecordVariants(MetaRaw)}

\* Error envelopes: `errors` of 0..MaxErrors entries.  Code 9 is no ErrorCode.
ErrorItems ==
    {ObjV([code |-> IntV(1), message |-> StrV("Invalid key")]),
     ObjV([code |-> IntV(3), message |-> StrV("Limit exceeded")]),
     ObjV([code |-> IntV(9), message |-> StrV("Teapot")])}

RECURSIVE ErrorLists(_)
ErrorLists(n) ==
    IF n = 0 THEN {<<>>}
    ELSE ErrorLists(n - 1)
         \cup {Append(l, e) : l \in {x \in ErrorLists(n - 1) : Len(x) = n - 1}, e \in ErrorItems}

ErrorEnvelope(errors) ==
    ObjV([status |-> StrV("ERROR"), meta |-> MetaRaw, errors |-> ListV(errors)])

ErrorBodies ==
    {ErrorEnvelope(l) : l \in ErrorLists(MaxErrors)}
    \cup {Drop(ErrorEnvelope(<<CHOOSE e \in ErrorItems : e.o["code"] = IntV(1)>>), k) :
            k \in {"status", "meta"}}
    \cup {Put(Envelope(ObjV(EmptyDict)), "errors", ListV(l)) : l \in ErrorLists(1)}

Statuses == {200, 201, 300, 404, 500}

\* A response: the status line and the body behind it.  Every body comes
\* with 200; the other statuses come with a well-formed body and with an
\* error envelope.
Responses(op) ==
    LET m == ResponseModel(op)
    IN {[status |-> 200, body |-> b] : b \in SuccessBodies(m) \cup ErrorBodies \cup {NotJson}}
       \cup {[status |-> st, body |-> b] :
                st \in Statuses \ {200},
                b \in {Envelope(WellFormedData(m)),
                       ErrorEnvelope(<<CHOOSE e \in ErrorItems : e.o["code"] = IntV(3)>>)}}

-----------------------------------------------------------------------------
(* The client as a state machine.  A call is suspended twice: at           *)
(* `async with session.get/post(...)` until the response arrives, and at   *)
(* `await response.json()` until the body is read.                         *)

Tasks == 1..NumTasks
Idle == [pc |-> "idle"]

\* ClientSession(), called by the client.
ClientSession == Session("client")

\* NetroHomeAPI.__init__(api_key, session):
\* self.session = ClientSession() if not session else session
NetroHomeAPI(api_key, session) ==
    [api_key |-> api_key,
     session |-> IF ~Truthy(session) THEN ClientSession ELSE session]

\* A caller starts a typed operation; it runs to its first await.
Started(t, op, a, r) ==
    /\ self' = r.self
    /\ calls' = [calls EXCEPT ![t] =
            IF r.ok
            THEN [pc |-> "awaiting_response", op |-> op, args |-> a, request |-> r.request]
            ELSE [pc |-> "done", op |-> op, result |-> Raise(r.exc)]]

Call(t, op, a) ==
    /\ alive
    /\ calls[t].pc = "idle"
    /\ Started(t, op, a, Invoke(self, op, a))
    /\ UNCHANGED <<alive, pydantic, codecVars>>

\* The response arrives; response.raise_for_status() runs.
RecvResponse(t, resp) ==
    /\ calls[t].pc = "awaiting_response"
    /\ calls' = [calls EXCEPT ![t] =
            IF raise_for_status(resp.status).ok
            THEN [pc |-> "awaiting_body", op |-> calls[t].op, response |-> resp]
            ELSE [pc |-> "done", op |-> calls[t].op, response |-> resp,
                  result |-> raise_for_status(resp.status)]]
    /\ UNCHANGED <<self, alive, pydantic, codecVars>>

\* The body is read; the raw form probes it and the typed form parses it.
RecvBody(t) ==
    /\ calls[t].pc = "awaiting_body"
    /\ calls' = [calls EXCEPT ![t] =
            [pc |-> "done", op |-> calls[t].op, response |-> calls[t].response,
             result |-> Complete(pydantic, calls[t].op, calls[t].response.body)]]
    /\ UNCHANGED <<self, alive, pydantic, codecVars>>

\* The caller has its result or its exception.
Returned(t) ==
    /\ calls[t].pc = "done"
    /\ calls' = [calls EXCEPT ![t] = Idle]
    /\ UNCHANGED <<self, alive, pydantic, codecVars>>

\* The caller lets go of the client once no call of it is in progress.  The
\* class has no close(), no __aenter__/__aexit__ and no __del__, so nothing
\* of the client runs: its attributes stay as they are.
Discard ==
    /\ alive
    /\ \A t \in Tasks : calls[t].pc = "idle"
    /\ alive' = FALSE
    /\ UNCHANGED <<self, calls, pydantic, codecVars>>

CallAny(t) == \E op \in Ops : \E a \in Args(op) : Call(t, op, a)
RecvAny(t) ==
    /\ calls[t].pc = "awaiting_response"
    /\ \E resp \in Responses(calls[t].op) : RecvResponse(t, resp)

Init ==
    /\ self \in {NetroHomeAPI(k, ses) : k \in ApiKeys, ses \in SessionArgs}
    /\ calls = [t \in Tasks |-> Idle]
    /\ alive = TRUE
    /\ pydantic \in {"v1", "v2"}
    /\ wire = None
    /\ decoded = None
    /\ encoded = None
    /\ schedule = None

Next == CallAny(1) \/ RecvAny(1) \/ RecvBody(1) \/ Returned(1) \/ Discard

Spec == Init /\ [][Next]_vars

-----------------------------------------------------------------------------
(* Concurrent callers of one client: every task of Tasks runs calls, the   *)
(* steps of different tasks interleave at the awaits.                      *)

ConcOps == {"get_info", "water", "set_moisture"}
ConcArgs(op) ==
    CASE op = "get_info" -> Args(op)
      [] op = "water" -> {a \in Args(op) : /\ a.zones = ListV(<<1>>) /\ a.delay = None
                                            /\ a.start_time = None}
      [] op = "set_moisture" -> {a \in Args(op) : a.zones = None /\ a.moisture = IntV(40)}
ConcResponses(op) ==
    {[status |-> 200, body |-> Envelope(WellFormedData(ResponseModel(op)))],
     [status |-> 200,
      body |-> ErrorEnvelope(<<CHOOSE e \in ErrorItems : e.o["code"] = IntV(1)>>)],
     [status |-> 404, body |-> NotJson]}

CallConc(t) == \E op \in ConcOps : \E a \in ConcArgs(op) : Call(t, op, a)
RecvConc(t) ==
    /\ calls[t].pc = "awaiting_response"
    /\ \E resp \in ConcResponses(calls[t].op) : RecvResponse(t, resp)

NextConc == \E t \in Tasks : CallConc(t) \/ RecvConc(t) \/ RecvBody(t) \/ Returned(t)

\* One client, made with a session of its own.
TheClient == NetroHomeAPI("key-A", None)
InitConc ==
    /\ self = TheClient
    /\ calls = [t \in Tasks |-> Idle]
    /\ alive = TRUE
    /\ pydantic \in {"v1", "v2"}
    /\ wire = None
    /\ decoded = None
    /\ encoded = None
    /\ schedule = None

SpecConc == InitConc /\ [][NextConc]_vars

-----------------------------------------------------------------------------
(* The date-time codec and the Schedule model on their own: a string goes  *)
(* through make_tz_aware and the instant back through strftime; a schedule *)
(* record goes through Schedule.parse_obj.                                 *)

WireDates == {"2024-01-05", "2024-02-29", "2023-02-29", "0999-12-31", "20240105"}
WireSeparators == {"T", " "}
WireTimes == {"06:30:00", "23:59:59", "00:00:00", "06:30", "06:30:00.5", "24:00:00",
              "063000"}
WireZones == {"", "Z", "+02:00"}
Wires ==
    {d \o sep \o t \o z : d \in WireDates, sep \in WireSeparators, t \in WireTimes,
                          z \in WireZones}
    \cup {"", "junk", "2024-01-05"}

ScheduleTimes ==
    {StrV(x) : x \in {"2024-01-05T06:30:00", "2024-01-05T23:50:00", "2024-01-06T00:10:00",
                      "2024-02-28T23:00:00", "2024-03-01T01:00:00",
                      "2024-01-05T06:30:00.5", "junk"}}
    \cup {None}
SchedulePayloads ==
    {Put(Put(sc, "start_time", st), "end_time", en) :
        sc \in {ScheduleRaw, Put(ScheduleRaw, "duration", IntV(5)),
                Put(ScheduleRaw, "duration", StrV("junk")),
                Put(ScheduleRaw, "duration", None)},
        st \in ScheduleTimes, en \in ScheduleTimes}
    \cup {Drop(ScheduleRaw, "start_time"), Drop(ScheduleRaw, "end_time"),
          Drop(Put(ScheduleRaw, "duration", IntV(5)), "start_time")}

\* The inputs: a run converts one wire string or parses one payload.
InitCodec ==
    /\ self \in {NetroHomeAPI(k, ses) : k \in ApiKeys, ses \in SessionArgs}
    /\ calls = [t \in Tasks |-> Idle]
    /\ alive = TRUE
    /\ pydantic \in {"v1", "v2"}
    /\ decoded = None
    /\ encoded = None
    /\ \/ wire \in {StrV(w) : w \in Wires} /\ schedule = None
       \/ wire = None /\ schedule \in {[payload |-> p, result |-> None] :
                                            p \in SchedulePayloads}

\* make_tz_aware(wire)
Decode ==
    /\ wire # None
    /\ decoded = None
    /\ decoded' = make_tz_aware(wire)
    /\ UNCHANGED <<clientVars, pydantic, wire, encoded, schedule>>

\* decoded.strftime("%Y-%m-%dT%H:%M:%S")
Encode ==
    /\ decoded # None
    /\ decoded.ok
    /\ encoded = None
    /\ encoded' = StrV(strftime_datetime(decoded.v))
    /\ UNCHANGED <<clientVars, pydantic, wire, decoded, schedule>>

\* Schedule.parse_obj(payload)
ParseSchedule ==
    /\ schedule # None
    /\ schedule.result = None
    /\ schedule' = [schedule EXCEPT !.result = parse_obj(pydantic, "Schedule", schedule.payload)]
    /\ UNCHANGED <<clientVars, pydantic, wire, decoded, encoded>>

NextCodec == Decode \/ Encode \/ ParseSchedule

SpecCodec == InitCodec /\ [][NextCodec]_vars

-----------------------------------------------------------------------------
(* Properties.                                                             *)

HasErrors(body) == body.t = "obj" /\ "errors" \in DOMAIN body.o
Ended(c) == c.pc = "done" /\ "response" \in DOMAIN c
Raised(c, exc) == ~c.result.ok /\ c.result.exc = exc
FirstError(body) == body.o["errors"].l[1]

\* An error envelope as the service documents it: status, meta, and an
\* `errors` array whose entries carry a code of ErrorCode and a message.
DocumentedErrors(body) ==
    /\ HasErrors(body)
    /\ {"status", "meta"} \subseteq DOMAIN body.o
    /\ body.o["meta"] = MetaRaw
    /\ body.o["status"] = StrV("ERROR")
    /\ \A i \in 1..Len(body.o["errors"].l) :
            body.o["errors"].l[i].o["code"] \in EnumValues("ErrorCode")

\* C1: whenever a 2xx response carries an error envelope, its `errors`
\* array of any length including none, the call ends with NetroException,
\* whose code and message are those of the first entry when there is one.
C1_ErrorsRaiseNetroException ==
    \A t \in Tasks :
        (/\ Ended(calls[t])
         /\ calls[t].response.status \in 200..299
         /\ DocumentedErrors(calls[t].response.body))
        => /\ Raised(calls[t], "NetroException")
           /\ Len(calls[t].response.body.o["errors"].l) > 0 =>
                /\ calls[t].result.code = FirstError(calls[t].response.body).o["code"]
                /\ calls[t].result.message = FirstError(calls[t].response.body).o["message"]

\* The three read operations that take optional filters, and the filters
\* of each.
FilterOps == {"get_schedules", "get_moistures", "get_events"}
Filters(op) ==
    IF op = "get_events" THEN {"start_date", "end_date", "event"}
    ELSE {"start_date", "end_date", "zones"}

\* The text of a date, written out for the dates the callers pass.
DateText(d) ==
    CASE d = DateV(2023, 12, 31) -> StrV("2023-12-31")
      [] d = DateV(2024, 1, 5) -> StrV("2024-01-05")

\* Python's text of a list of small ints: "[1, 2]".
ZonesText(l) ==
    StrV("[" \o (CASE Len(l) = 0 -> ""
                   [] Len(l) = 1 -> ToString(l[1])
                   [] Len(l) = 2 -> ToString(l[1]) \o ", " \o ToString(l[2])
                   [] Len(l) = 3 -> ToString(l[1]) \o ", " \o ToString(l[2]) \o ", "
                                    \o ToString(l[3])
                   [] OTHER -> "...") \o "]")

\* What a supplied filter is sent as.
FilterSent(f, v) ==
    CASE f = "zones" -> ZonesText(v.l)
      [] f \in {"start_date", "end_date"} -> DateText(v)
      [] f = "event" -> v

\* The call c sends exactly the filters in which `sends` holds of the
\* argument, each as FilterSent, and besides them only `key`.
SendsFilters(c, sends(_)) ==
    /\ DOMAIN c.request.params =
            {"key"} \cup {f \in Filters(c.op) : sends(c.args[f])}
    /\ \A f \in Filters(c.op) :
            sends(c.args[f]) => c.request.params[f] = FilterSent(f, c.args[f])

Supplied(v) == v # None
SuppliedNonEmpty(v) == v # None /\ v # ListV(<<>>)

\* C2 as claimed: get_schedules, get_moistures and get_events send each
\* optional filter if and only if the caller supplied it (dates as
\* %Y-%m-%d), and nothing else but `key`.
C2_FilterIffSupplied ==
    \A t \in Tasks :
        (calls[t].pc = "awaiting_response" /\ calls[t].op \in FilterOps)
        => SendsFilters(calls[t], Supplied)

\* C2 as amended: each optional filter is sent if and only if the caller
\* supplied it and it is not an empty list; a supplied empty `zones` list
\* is left out like an absent one.
C2_FilterIffSuppliedNonEmpty ==
    \A t \in Tasks :
        (calls[t].pc = "awaiting_response" /\ calls[t].op \in FilterOps)
        => SendsFilters(calls[t], SuppliedNonEmpty)

\* A read with every filter supplied, zones holding two entries.
C2_Witness ==
    \E t \in Tasks :
        /\ calls[t].pc = "awaiting_response"
        /\ calls[t].op = "get_schedules"
        /\ calls[t].args.start_date # None
        /\ calls[t].args.end_date # None
        /\ calls[t].args.zones = ListV(<<1, 2>>)
        /\ calls[t].request.params["zones"] = StrV("[1, 2]")

\* The parts of a request that C3 compares.
SameRequest(r1, r2) ==
    /\ r1.method = r2.method
    /\ r1.url = r2.url
    /\ r1.json = r2.json

\* C3: water(duration=d, zones=z) and water_as_schedule(duration=d,
\* zones=z) send the same request: a call of either that is awaiting its
\* response has sent what the other sends for the same d and z.
C3_WaterSameAsSchedule ==
    \A t \in Tasks :
        calls[t].pc = "awaiting_response" =>
            /\ calls[t].op = "water_as_schedule" =>
                    SameRequest(calls[t].request,
                                water(self, calls[t].args.duration, calls[t].args.zones,
                                      None, None).request)
            /\ (/\ calls[t].op = "water"
                /\ calls[t].args.delay = None
                /\ calls[t].args.start_time = None) =>
                    SameRequest(calls[t].request,
                                water_as_schedule(self, calls[t].args.zones,
                                                  calls[t].args.duration).request)

\* water_as_schedule(duration=5, zones=[1, 2]) has sent its request: a POST
\* of duration and zones to the water endpoint.
C3_Witness ==
    \E t \in Tasks :
        /\ calls[t].pc = "awaiting_response"
        /\ calls[t].op = "water_as_schedule"
        /\ calls[t].args = [zones |-> ListV(<<1, 2>>), duration |-> IntV(5)]
        /\ calls[t].request.method = "POST"
        /\ calls[t].request.json =
                [key |-> StrV(self.api_key), duration |-> IntV(5), zones |-> StrV("[1, 2]")]

\* What a request carries: the query of a GET, the JSON body of a POST.
Carried(r) == IF r.method = "GET" THEN r.params ELSE r.json

\* C5: every request carries `key` with the API key of the client, in the
\* query of a GET and in the JSON body of a POST.
C5_KeyInEveryRequest ==
    \A t \in Tasks :
        calls[t].pc = "awaiting_response" =>
            /\ calls[t].request.method \in {"GET", "POST"}
            /\ (calls[t].request.method = "GET") = IsGet(calls[t].op)
            /\ "key" \in DOMAIN Carried(calls[t].request)
            /\ Carried(calls[t].request)["key"] = StrV(self.api_key)

\* A POST and a GET with parameters of their own, each with the key.
C5_Witness ==
    \E t \in Tasks :
        /\ calls[t].pc = "awaiting_response"
        /\ calls[t].op = "report_weather"
        /\ self.api_key = "key-B"
        /\ calls[t].request.json["key"] = StrV("key-B")
        /\ Cardinality(DOMAIN calls[t].request.json) > 2

\* The whole seconds of a timedelta, and the seconds and microseconds by
\* which instant a is later than instant b (each may be negative).
TotalSeconds(td) == td.days * 86400 + td.seconds
SecondsLater(a, b) ==
    (((ToOrdinal(a) - ToOrdinal(b)) * 24 + (a.hour - b.hour)) * 60
     + (a.minute - b.minute)) * 60 + (a.second - b.second)
MicrosLater(a, b) == a.microsecond - b.microsecond

\* td is the span of s seconds and us microseconds.
IsSpan(td, s, us) ==
    /\ td.t = "timedelta"
    /\ td.microseconds \in 0..999999
    /\ \E carry \in {-1, 0} :
            /\ td.microseconds = us - carry * 1000000
            /\ TotalSeconds(td) = s + carry

Parsed(sc) == sc # None /\ sc.result # None /\ sc.result.ok

\* C4: every Schedule that Schedule.parse_obj returns has duration equal to
\* end_time minus start_time, the difference of the two instants, whatever
\* `duration` the payload held.
C4_DurationIsDifference ==
    Parsed(schedule) =>
        IsSpan(schedule.result.v.f["duration"],
               SecondsLater(schedule.result.v.f["end_time"],
                            schedule.result.v.f["start_time"]),
               MicrosLater(schedule.result.v.f["end_time"],
                           schedule.result.v.f["start_time"]))

\* A schedule from 23:50 to 00:10 the next day, sent with `duration` 5,
\* parsed: its duration is twenty minutes.
C4_Witness ==
    /\ Parsed(schedule)
    /\ schedule.payload.o["start_time"] = StrV("2024-01-05T23:50:00")
    /\ schedule.payload.o["end_time"] = StrV("2024-01-06T00:10:00")
    /\ "duration" \in DOMAIN schedule.payload.o
    /\ schedule.payload.o["duration"] = IntV(5)
    /\ schedule.result.v.f["duration"] = timedelta(0, 1200, 0)

\* A date and a time without a zone offset: more than a date, no '+', no
\* 'Z', and no '-' after the date.
NoOffset(w) ==
    /\ Len(w) > 10
    /\ FindPlus1(w, "+") = 0
    /\ FindPlus1(w, "Z") = 0
    /\ FindPlus1(Slice(w, 10, Len(w)), "-") = 0

Converted == wire # None /\ decoded # None /\ decoded.ok /\ encoded # None

\* C10 as claimed: a date-time string without a zone offset that the codec
\* decodes is, decoded and encoded again with %Y-%m-%dT%H:%M:%S, the
\* string it was.
C10_RoundTrip ==
    (Converted /\ NoOffset(wire.s)) => encoded = wire

\* The form YYYY-MM-DDTHH:MM:SS: a four-digit year of 1000 or later, a 'T',
\* whole seconds.
IsoSeconds(w) ==
    /\ Len(w) = 19
    /\ \A i \in {1, 2, 3, 4, 6, 7, 9, 10, 12, 13, 15, 16, 18, 19} : IsDigit(SubSeq(w, i, i))
    /\ SubSeq(w, 1, 1) # "0"
    /\ SubSeq(w, 5, 5) = "-" /\ SubSeq(w, 8, 8) = "-"
    /\ SubSeq(w, 11, 11) = "T"
    /\ SubSeq(w, 14, 14) = ":" /\ SubSeq(w, 17, 17) = ":"

\* C10 as amended: the round trip gives the original back for the strings
\* of the form YYYY-MM-DDTHH:MM:SS that the codec decodes.
C10_RoundTripIsoSeconds ==
    (Converted /\ IsoSeconds(wire.s)) => encoded = wire

\* "2024-02-29T23:59:59" decoded to the instant in UTC and encoded again.
C10_Witness ==
    /\ Converted
    /\ wire = StrV("2024-02-29T23:59:59")
    /\ decoded.v.tz = "utc"
    /\ decoded.v.day = 29 /\ decoded.v.hour = 23
    /\ encoded = wire

\* The call c ended at the status check, its body never read.
TransportFailure(c) == Raised(c, "ClientResponseError")

EndpointOf(op) ==
    CASE op = "get_info" -> "info"
      [] op = "get_schedules" -> "schedules"
      [] op \in {"water", "water_as_schedule", "set_schedule"} -> "water"
      [] op \in {"get_moistures", "set_moisture"} -> "moistures"
      [] op = "get_events" -> "events"
      [] op = "set_device_status" -> "set_status"
      [] op = "stop_water" -> "stop_water"
      [] op = "no_water" -> "no_water"
      [] op = "report_weather" -> "report_weather"
      [] op = "get_sensor_data" -> "sensor_data"

\* C9: every request goes to <base>/<endpoint>.json, the endpoint being the
\* one named for the operation.
C9_EndpointOfOperation ==
    \A t \in Tasks :
        calls[t].pc = "awaiting_response" =>
            calls[t].request.url
                = "http://api.netrohome.com/npa/v1/" \o EndpointOf(calls[t].op) \o ".json"

\* The operations that return one of the five endpoint models, the record
\* each endpoint sends, and the `data` that holds it.
ShapedOps == {op \in Ops : ResponseModel(op) # "SuccessResponse"}
RawRecord(m) ==
    CASE m = "InfoEndpointResponse" -> DeviceRaw
      [] m = "SchedulesEndpointResponse" -> ScheduleRaw
      [] m = "MoisturesEndpointResponse" -> MoistureRaw
      [] m = "EventsEndpointResponse" -> EventRaw
      [] m = "SensorsEndpointResponse" -> SensorRaw
DataField(m) ==
    CASE m = "InfoEndpointResponse" -> "device"
      [] m = "SchedulesEndpointResponse" -> "schedules"
      [] m = "MoisturesEndpointResponse" -> "moistures"
      [] m = "EventsEndpointResponse" -> "events"
      [] m = "SensorsEndpointResponse" -> "sensor_data"
DataOf(m, rec) ==
    ObjV(DataField(m) :> (IF m = "InfoEndpointResponse" THEN rec ELSE ListV(<<rec>>)))

\* The bodies that follow the endpoint's declaration, as they are or with a
\* key nobody declared; and those that lack one required key.
GoodBodies(m) ==
    {Envelope(DataOf(m, RawRecord(m))),
     Put(Envelope(DataOf(m, RawRecord(m))), "unknown_field", IntV(1)),
     Envelope(DataOf(m, Put(RawRecord(m), "unknown_field", IntV(1))))}
LackingBodies(m) ==
    {Drop(Envelope(DataOf(m, RawRecord(m))), k) : k \in {"status", "meta", "data"}}
    \cup {Envelope(DataOf(m, Drop(RawRecord(m), k))) : k \in DOMAIN RawRecord(m).o}

\* The result is a success object whose `data` holds the endpoint's
\* record: the device, or the list of one record.
HasDeclaredShape(result, m) ==
    /\ result.ok
    /\ result.v.t = "model"
    /\ "data" \in DOMAIN result.v.f
    /\ result.v.f["data"].t = "model"
    /\ DataField(m) \in DOMAIN result.v.f["data"].f
    /\ IF m = "InfoEndpointResponse"
       THEN result.v.f["data"].f[DataField(m)].t = "model"
       ELSE /\ result.v.f["data"].f[DataField(m)].t = "list"
            /\ Len(result.v.f["data"].f[DataField(m)].l) = 1

\* C7: a 2xx response without `errors` that follows the endpoint's
\* declaration, unknown keys or not, gives the typed success object with
\* the endpoint's data; one that lacks a required key gives a validation
\* failure.
C7_TypedShapes ==
    \A t \in Tasks :
        (/\ Ended(calls[t])
         /\ calls[t].response.status \in 200..299
         /\ calls[t].op \in ShapedOps)
        => /\ calls[t].response.body \in GoodBodies(ResponseModel(calls[t].op))
                => HasDeclaredShape(calls[t].result, ResponseModel(calls[t].op))
           /\ calls[t].response.body \in LackingBodies(ResponseModel(calls[t].op))
                => Raised(calls[t], "ValidationError")

\* What a call that ran alone on the client sends and returns: the request
\* of its own arguments, the result of its own response.
AsIfAlone(c) ==
    /\ c.pc = "awaiting_response" => c.request = Invoke(TheClient, c.op, c.args).request
    /\ Ended(c) =>
            c.result = IF c.response.status >= 400 THEN Raise("ClientResponseError")
                       ELSE Complete(pydantic, c.op, c.response.body)

\* C8: however the calls of the tasks interleave, no step changes the
\* client's api_key or session, and each call sends the request and
\* returns the result it would have if it ran alone.
C8_CallsIndependent ==
    /\ [][self' = self]_vars
    /\ [](\A t \in Tasks : AsIfAlone(calls[t]))

\* Two calls in flight at once: one has its result while the other, started
\* before that result came, still waits for its response.
C8_Witness ==
    \E t1, t2 \in Tasks :
        /\ t1 # t2
        /\ Ended(calls[t1])
        /\ calls[t1].op = "water"
        /\ calls[t1].result.ok
        /\ calls[t2].pc = "awaiting_response"
        /\ calls[t2].op = "get_info"
        /\ self = TheClient

-----------------------------------------------------------------------------
\* The session the client holds was made by the client itself.
Owned == self.session # None /\ self.session.owner = "client"

\* C11: the client always holds a session, one it made itself when none was
\* supplied; once the caller has let go of the client a session the client
\* made is closed, and a session the caller supplied is never closed.
C11_OwnedSessionReleased ==
    /\ self.session # None
    /\ (~alive /\ Owned) => self.session.closed
    /\ ~Owned => ~self.session.closed

-----------------------------------------------------------------------------
\* A value that is null or empty: None, "", [].
NullOrEmpty(v) ==
    \/ v = None
    \/ v.t = "str" /\ v.s = ""
    \/ v.t = "list" /\ v.l = <<>>

\* C12: in every request sent, the query of a GET or the JSON body of a
\* POST, every field present holds a value that is neither null nor empty:
\* an optional argument left out contributes no field.
C12_NoNullField ==
    \A t \in Tasks :
        calls[t].pc = "awaiting_response" =>
            \A k \in DOMAIN Carried(calls[t].request) :
                ~NullOrEmpty(Carried(calls[t].request)[k])

====
